---- MODULE Spec2Model ----
(***************************************************************************)
(* Model of rc_simulator/supply_system.py: the SupplyDirector, the supply  *)
(* system classes (calc_loads) and the SupplyOut result objects.           *)
(*                                                                         *)
(* Numbers.  A Python float is modelled as a record [k, n, d]:             *)
(*   k = "num"   the finite value n/d (d > 0, lowest terms), computed      *)
(*               exactly (rounding of the binary format is not modelled);  *)
(*   k = "nan"   float("nan");                                             *)
(*   k = "inf", "ninf"    +infinity, -infinity;                            *)
(*   k = "huge", "nhuge"  a finite float of magnitude 1e200 (or 2e200):    *)
(*               beyond sqrt(DBL_MAX), so that x**2 overflows the format;  *)
(*   k = "unset" no instance attribute: the read falls to the class.       *)
(***************************************************************************)
EXTENDS Integers, Sequences, FiniteSets

VARIABLES
  objs,     \* the supply system instances: a sequence of their attribute records
  builder,  \* SupplyDirector.builder: 0 for None, else an index of objs
  heap,     \* the SupplyOut instances returned so far: their instance attributes
  calls,    \* the caller's record of every call made and what it gave back
  dirty     \* the <<instance, field>> pairs the caller has overwritten

vars == <<objs, builder, heap, calls, dirty>>

\* ------------------------------------------------------------ bounds
NumLoads == 3
NumTemps == 3
MaxCalls == 3
MaxWrites == 1

\* ------------------------------------------------------------ numbers
Abs(x) == IF x < 0 THEN -x ELSE x

RECURSIVE GCD(_, _)
GCD(a, b) == IF b = 0 THEN a ELSE GCD(b, a % b)

Norm(n, d) ==
  LET g == GCD(Abs(n), d)
  IN  [k |-> "num", n |-> n \div g, d |-> d \div g]

Num(n, d) == Norm(n, d)

Special(kind) == [k |-> kind, n |-> 0, d |-> 1]

NaN == Special("nan")
PosInf == Special("inf")
NegInf == Special("ninf")
Huge == Special("huge")
NegHuge == Special("nhuge")
Unset == Special("unset")
Zero == Num(0, 1)

\* sign of a non-NaN float: -1, 0 or 1
Sign(x) ==
  CASE x.k \in {"inf", "huge"} -> 1
    [] x.k \in {"ninf", "nhuge"} -> -1
    [] OTHER -> IF x.n > 0 THEN 1 ELSE IF x.n < 0 THEN -1 ELSE 0

FNeg(x) ==
  CASE x.k = "num" -> Num(-x.n, x.d)
    [] x.k = "inf" -> NegInf
    [] x.k = "ninf" -> PosInf
    [] x.k = "huge" -> NegHuge
    [] x.k = "nhuge" -> Huge
    [] OTHER -> x

\* a - b on floats
FSub(a, b) ==
  CASE a.k = "nan" \/ b.k = "nan" -> NaN
    [] a.k = "inf" -> IF b.k = "inf" THEN NaN ELSE PosInf
    [] a.k = "ninf" -> IF b.k = "ninf" THEN NaN ELSE NegInf
    [] b.k = "inf" -> NegInf
    [] b.k = "ninf" -> PosInf
    [] a.k = "huge" -> IF b.k = "huge" THEN Zero ELSE Huge
    [] a.k = "nhuge" -> IF b.k = "nhuge" THEN Zero ELSE NegHuge
    [] b.k = "huge" -> NegHuge
    [] b.k = "nhuge" -> Huge
    [] OTHER ->
         LET g == GCD(a.d, b.d)
         IN  Norm(a.n * (b.d \div g) - b.n * (a.d \div g), (a.d \div g) * b.d)

\* a + b on floats
FAdd(a, b) == FSub(a, FNeg(b))

\* a * b on floats (an overflowing product is an infinity, no error)
FMul(a, b) ==
  CASE a.k = "nan" \/ b.k = "nan" -> NaN
    [] a.k \in {"inf", "ninf"} \/ b.k \in {"inf", "ninf"} ->
         IF Sign(a) * Sign(b) = 0 THEN NaN
         ELSE IF Sign(a) * Sign(b) > 0 THEN PosInf ELSE NegInf
    [] a.k \in {"huge", "nhuge"} /\ b.k \in {"huge", "nhuge"} ->
         IF Sign(a) * Sign(b) > 0 THEN PosInf ELSE NegInf
    [] a.k \in {"huge", "nhuge"} \/ b.k \in {"huge", "nhuge"} ->
         IF Sign(a) * Sign(b) = 0 THEN Zero
         ELSE IF Sign(a) * Sign(b) > 0 THEN Huge ELSE NegHuge
    [] OTHER -> Norm(a.n * b.n, a.d * b.d)

\* a / b on floats, b # 0 (the caller raises ZeroDivisionError for b = 0)
FDiv(a, b) ==
  CASE a.k = "nan" \/ b.k = "nan" -> NaN
    [] a.k \in {"inf", "ninf"} ->
         IF b.k \in {"inf", "ninf"} THEN NaN
         ELSE IF Sign(a) * Sign(b) > 0 THEN PosInf ELSE NegInf
    [] b.k \in {"inf", "ninf"} -> Zero
    [] a.k \in {"huge", "nhuge"} ->
         IF b.k \in {"huge", "nhuge"} THEN Num(Sign(a) * Sign(b), 1)
         ELSE IF Sign(a) * Sign(b) > 0 THEN Huge ELSE NegHuge
    [] b.k \in {"huge", "nhuge"} -> Zero
    [] OTHER ->
         IF b.n > 0 THEN Norm(a.n * b.d, a.d * b.n)
         ELSE Norm(-(a.n * b.d), a.d * (-b.n))

\* x > 0 on floats (every comparison with nan is false)
FGt0(x) == x.k # "nan" /\ Sign(x) > 0

\* faulty variant: no clamp, the difference is used as it is
Max0_noclamp(x) == x

\* the builtin max(0, x): x when x > 0, else the first argument 0
Max0(x) == IF FGt0(x) THEN x ELSE Zero

\* x**2 raises OverflowError when the square leaves the float range
PowOverflows(x) == x.k \in {"huge", "nhuge"}

\* x**2 on floats, for x whose square is in range
FPow2(x) ==
  CASE x.k = "nan" -> NaN
    [] x.k \in {"inf", "ninf"} -> PosInf
    [] OTHER -> Norm(x.n * x.n, x.d * x.d)

\* ------------------------------------------------------------ SupplyOut
Fields == {"fossils_in", "electricity_in", "electricity_out", "cop"}

\* the class attributes of SupplyOut
SupplyOut ==
  [fossils_in |-> NaN, electricity_in |-> NaN, electricity_out |-> NaN, cop |-> NaN]

\* SupplyOut(): an instance with no attribute of its own yet
NewSupplyOut == [f \in Fields |-> Unset]

\* o.f: the instance attribute when set, else the class attribute
GetAttr(o, f) == IF o[f] = Unset THEN SupplyOut[f] ELSE o[f]

\* ------------------------------------------------------------ supply systems
Classes ==
  {"OilBoilerOld", "OilBoilerMed", "OilBoilerNew", "HeatPumpAir", "HeatPumpWater",
   "ElectricHeating", "CHP", "DirectHeater", "DirectCooler"}

\* SupplySystemBase.__init__: the six arguments become the attributes
SupplySystemBase(cls, load, t_out, hst, cst, hhd, hcd) ==
  [cls |-> cls, load |-> load, t_out |-> t_out,
   heating_supply_temperature |-> hst, cooling_supply_temperature |-> cst,
   has_heating_demand |-> hhd, has_cooling_demand |-> hcd]

\* what a calc_loads call leaves: the instance, and the SupplyOut it returns
\* or the exception it raises
Return(self, system) == [self |-> self, system |-> system, exc |-> "none"]

Raise(self, e) == [self |-> self, system |-> NewSupplyOut, exc |-> e]

\* faulty variant: the boiler also stores the fuel back into self.load
OilBoilerOld_calc_loads_selfwrite(self) ==
  LET fossils == FDiv(self.load, Num(63, 100))
  IN  Return([self EXCEPT !.load = fossils],
             [NewSupplyOut EXCEPT !.fossils_in = fossils,
                                  !.electricity_in = Zero,
                                  !.electricity_out = Zero])

OilBoilerOld_calc_loads(self) ==
  Return(self, [NewSupplyOut EXCEPT !.fossils_in = FDiv(self.load, Num(63, 100)),
                                    !.electricity_in = Zero,
                                    !.electricity_out = Zero])

OilBoilerMed_calc_loads(self) ==
  Return(self, [NewSupplyOut EXCEPT !.fossils_in = FDiv(self.load, Num(82, 100)),
                                    !.electricity_in = Zero,
                                    !.electricity_out = Zero])

OilBoilerNew_calc_loads(self) ==
  Return(self, [NewSupplyOut EXCEPT !.fossils_in = FDiv(self.load, Num(98, 100)),
                                    !.electricity_in = Zero,
                                    !.electricity_out = Zero])

\* Eq (4): cop = c0 - c1 * deltaT + c2 * deltaT**2, then
\* electricity_in = load / cop, fossils_in = 0, electricity_out = 0
HeatPumpLoads(self, deltaT, c0, c1, c2) ==
  IF PowOverflows(deltaT) THEN Raise(self, "OverflowError")
  ELSE LET cop == FAdd(FSub(c0, FMul(c1, deltaT)), FMul(c2, FPow2(deltaT)))
       IN  IF cop = Zero THEN Raise(self, "ZeroDivisionError")
           ELSE Return(self, [NewSupplyOut EXCEPT !.cop = cop,
                                                  !.electricity_in = FDiv(self.load, cop),
                                                  !.fossils_in = Zero,
                                                  !.electricity_out = Zero])

\* faulty variant: no demand falls through to the zeroing, as in HeatPumpWater
HeatPumpAir_calc_loads_noraise(self) ==
  IF self.has_heating_demand
  THEN HeatPumpLoads(self, Max0(FSub(self.heating_supply_temperature, self.t_out)),
                     Num(681, 100), Num(121, 1000), Num(63, 100000))
  ELSE IF self.has_cooling_demand
  THEN HeatPumpLoads(self, Max0(FSub(self.t_out, self.cooling_supply_temperature)),
                     Num(681, 100), Num(121, 1000), Num(63, 100000))
  ELSE Return(self, [NewSupplyOut EXCEPT !.fossils_in = Zero,
                                         !.electricity_out = Zero])

\* faulty variant: the cooling flag is tested first
HeatPumpAir_calc_loads_coolfirst(self) ==
  IF self.has_cooling_demand
  THEN HeatPumpLoads(self, Max0(FSub(self.t_out, self.cooling_supply_temperature)),
                     Num(681, 100), Num(121, 1000), Num(63, 100000))
  ELSE IF self.has_heating_demand
  THEN HeatPumpLoads(self, Max0(FSub(self.heating_supply_temperature, self.t_out)),
                     Num(681, 100), Num(121, 1000), Num(63, 100000))
  ELSE Raise(self, "ValueError")

HeatPumpAir_calc_loads(self) ==
  IF self.has_heating_demand
  THEN HeatPumpLoads(self, Max0(FSub(self.heating_supply_temperature, self.t_out)),
                     Num(681, 100), Num(121, 1000), Num(63, 100000))
  ELSE IF self.has_cooling_demand
  THEN HeatPumpLoads(self, Max0(FSub(self.t_out, self.cooling_supply_temperature)),
                     Num(681, 100), Num(121, 1000), Num(63, 100000))
  ELSE Raise(self, "ValueError")

\* faulty variant: the zeroing is done inside the branches only
HeatPumpWater_calc_loads_allnan(self) ==
  IF self.has_heating_demand
  THEN HeatPumpLoads(self, Max0(FSub(self.heating_supply_temperature, Num(7, 1))),
                     Num(877, 100), Num(150, 1000), Num(734, 1000000))
  ELSE IF self.has_cooling_demand
  THEN HeatPumpLoads(self, Max0(FSub(Num(12, 1), self.cooling_supply_temperature)),
                     Num(877, 100), Num(150, 1000), Num(734, 1000000))
  ELSE Return(self, NewSupplyOut)

\* faulty variant: no demand raises, as in HeatPumpAir
HeatPumpWater_calc_loads_raise(self) ==
  IF self.has_heating_demand
  THEN HeatPumpLoads(self, Max0(FSub(self.heating_supply_temperature, Num(7, 1))),
                     Num(877, 100), Num(150, 1000), Num(734, 1000000))
  ELSE IF self.has_cooling_demand
  THEN HeatPumpLoads(self, Max0(FSub(Num(12, 1), self.cooling_supply_temperature)),
                     Num(877, 100), Num(150, 1000), Num(734, 1000000))
  ELSE Raise(self, "ValueError")

\* faulty variant: the outdoor temperature is the reservoir temperature
HeatPumpWater_calc_loads_outdoor(self) ==
  IF self.has_heating_demand
  THEN HeatPumpLoads(self, Max0(FSub(self.heating_supply_temperature, self.t_out)),
                     Num(877, 100), Num(150, 1000), Num(734, 1000000))
  ELSE IF self.has_cooling_demand
  THEN HeatPumpLoads(self, Max0(FSub(self.t_out, self.cooling_supply_temperature)),
                     Num(877, 100), Num(150, 1000), Num(734, 1000000))
  ELSE Return(self, [NewSupplyOut EXCEPT !.fossils_in = Zero,
                                         !.electricity_out = Zero])

HeatPumpWater_calc_loads(self) ==
  IF self.has_heating_demand
  THEN HeatPumpLoads(self, Max0(FSub(self.heating_supply_temperature, Num(7, 1))),
                     Num(877, 100), Num(150, 1000), Num(734, 1000000))
  ELSE IF self.has_cooling_demand
  THEN HeatPumpLoads(self, Max0(FSub(Num(12, 1), self.cooling_supply_temperature)),
                     Num(877, 100), Num(150, 1000), Num(734, 1000000))
  ELSE Return(self, [NewSupplyOut EXCEPT !.fossils_in = Zero,
                                         !.electricity_out = Zero])

ElectricHeating_calc_loads(self) ==
  Return(self, [NewSupplyOut EXCEPT !.electricity_in = self.load,
                                    !.fossils_in = Zero,
                                    !.electricity_out = Zero])

\* faulty variant: electricity_in is left unassigned
CHP_calc_loads_noelec(self) ==
  LET fossils == FDiv(self.load, Num(6, 10))
  IN  Return(self, [NewSupplyOut EXCEPT !.fossils_in = fossils,
                                        !.electricity_out = FMul(fossils, Num(33, 100))])

CHP_calc_loads(self) ==
  LET fossils == FDiv(self.load, Num(6, 10))
  IN  Return(self, [NewSupplyOut EXCEPT !.fossils_in = fossils,
                                        !.electricity_in = Zero,
                                        !.electricity_out = FMul(fossils, Num(33, 100))])

DirectHeater_calc_loads(self) ==
  Return(self, [NewSupplyOut EXCEPT !.electricity_in = self.load,
                                    !.fossils_in = Zero,
                                    !.electricity_out = Zero])

DirectCooler_calc_loads(self) ==
  Return(self, [NewSupplyOut EXCEPT !.electricity_in = self.load,
                                    !.fossils_in = Zero,
                                    !.electricity_out = Zero])

\* self.calc_loads(): the method of self's class
calc_loads(self) ==
  CASE self.cls = "OilBoilerOld" -> OilBoilerOld_calc_loads(self)
    [] self.cls = "OilBoilerMed" -> OilBoilerMed_calc_loads(self)
    [] self.cls = "OilBoilerNew" -> OilBoilerNew_calc_loads(self)
    [] self.cls = "HeatPumpAir" -> HeatPumpAir_calc_loads(self)
    [] self.cls = "HeatPumpWater" -> HeatPumpWater_calc_loads(self)
    [] self.cls = "ElectricHeating" -> ElectricHeating_calc_loads(self)
    [] self.cls = "CHP" -> CHP_calc_loads(self)
    [] self.cls = "DirectHeater" -> DirectHeater_calc_loads(self)
    [] self.cls = "DirectCooler" -> DirectCooler_calc_loads(self)

\* ------------------------------------------------------------ inputs
LoadTable == <<60, -63, 0, 1000, 63>>

TempTable == <<-60, 35, 110, 7, 12, 0>>

\* loads: finite ones (positive, negative, zero), +infinity and nan
Loads == {Num(LoadTable[i], 1) : i \in 1..NumLoads} \cup {PosInf, NaN}

\* temperatures: finite ones, the extreme finite +-1e200, +infinity and nan
Temps == {Num(TempTable[i], 1) : i \in 1..NumTemps} \cup {Huge, NegHuge, PosInf, NaN}

\* the instances a caller can construct from these inputs
Strategies ==
  {SupplySystemBase(c, l, t, h, k, hd, cd) :
     c \in Classes, l \in Loads, t \in Temps, h \in Temps, k \in Temps,
     hd \in BOOLEAN, cd \in BOOLEAN}

\* ------------------------------------------------------------ calls
\* one entry of the caller's record: the operation, the instance it ran on
\* (0: none), the exception raised, the SupplyOut returned (0: none) and the
\* attributes that SupplyOut had when it was returned
Call(op, who, exc, ref, system) ==
  [op |-> op, who |-> who, exc |-> exc, ref |-> ref, system |-> system]

\* faulty variant: one SupplyOut instance is shared by every call
Alloc_shared(h) == 1

\* system = SupplyOut(): the address of the new instance
Alloc(h) == Len(h) + 1

\* the assignments system.f = v made on the instance at address a
Store(h, a, system) ==
  IF a > Len(h) THEN Append(h, system)
  ELSE [h EXCEPT ![a] = [f \in Fields |-> IF system[f] # Unset THEN system[f] ELSE @[f]]]

\* a call of objs[id].calc_loads() through op, and what the caller records
Invoke(op, id) ==
  LET out == calc_loads(objs[id])
      a == Alloc(heap)
  IN  /\ objs' = [objs EXCEPT ![id] = out.self]
      /\ IF out.exc = "none"
         THEN /\ heap' = Store(heap, a, out.system)
              /\ calls' = Append(calls, Call(op, id, "none", a, out.system))
         ELSE /\ heap' = heap
              /\ calls' = Append(calls, Call(op, id, out.exc, 0, NewSupplyOut))

\* the caller calls objs[id].calc_loads() itself
CalcLoads(id) ==
  /\ Len(calls) < MaxCalls
  /\ Invoke("calc_loads", id)
  /\ UNCHANGED <<builder, dirty>>

\* SupplyDirector.set_builder(objs[id])
set_builder(id) ==
  /\ Len(calls) < MaxCalls
  /\ builder' = id
  /\ calls' = Append(calls, Call("set_builder", id, "none", 0, NewSupplyOut))
  /\ UNCHANGED <<objs, heap, dirty>>

\* faulty variant: calc_system forgets the builder once it has run
calc_system_reset ==
  /\ Len(calls) < MaxCalls
  /\ IF builder = 0
     THEN /\ calls' = Append(calls, Call("calc_system", 0, "AttributeError", 0, NewSupplyOut))
          /\ UNCHANGED <<objs, heap>>
     ELSE Invoke("calc_system", builder)
  /\ builder' = 0
  /\ UNCHANGED dirty

\* SupplyDirector.calc_system(): with builder still None the attribute lookup
\* None.calc_loads raises AttributeError
calc_system ==
  /\ Len(calls) < MaxCalls
  /\ IF builder = 0
     THEN /\ calls' = Append(calls, Call("calc_system", 0, "AttributeError", 0, NewSupplyOut))
          /\ UNCHANGED <<objs, heap>>
     ELSE Invoke("calc_system", builder)
  /\ UNCHANGED <<builder, dirty>>

\* the value a caller writes over a field of a result it owns
Scribble == Num(-7, 1)

\* the caller assigns heap[i].f = Scribble on a SupplyOut it was given
Overwrite(i, f) ==
  /\ Cardinality(dirty) < MaxWrites
  /\ <<i, f>> \notin dirty
  /\ heap' = [heap EXCEPT ![i][f] = Scribble]
  /\ dirty' = dirty \cup {<<i, f>>}
  /\ UNCHANGED <<objs, builder, calls>>

\* ------------------------------------------------------------ specifications
\* one instance, any class and inputs; the caller calls calc_loads on it
Init ==
  /\ objs \in {<<s>> : s \in Strategies}
  /\ builder = 0
  /\ heap = <<>>
  /\ calls = <<>>
  /\ dirty = {}

Next == \E id \in DOMAIN objs : CalcLoads(id)

Spec == Init /\ [][Next]_vars

\* two heat pumps of one class with the same load and heating supply
\* temperature, any outdoor temperature, cooling supply temperature and flags;
\* the caller calls calc_loads once on each, in either order
PairTemps == {Num(TempTable[i], 1) : i \in 1..NumTemps} \cup {Huge}

PairStrategies ==
  {SupplySystemBase(c, Num(LoadTable[1], 1), t, h, k, hd, cd) :
     c \in {"HeatPumpAir", "HeatPumpWater"}, t \in PairTemps, h \in PairTemps,
     k \in PairTemps, hd \in BOOLEAN, cd \in BOOLEAN}

Variants(s) ==
  {SupplySystemBase(s.cls, s.load, t, s.heating_supply_temperature, k, hd, cd) :
     t \in PairTemps, k \in PairTemps, hd \in BOOLEAN, cd \in BOOLEAN}

InitPair ==
  /\ \E s \in PairStrategies : \E v \in Variants(s) : objs = <<s, v>>
  /\ builder = 0
  /\ heap = <<>>
  /\ calls = <<>>
  /\ dirty = {}

NextPair ==
  \E id \in DOMAIN objs :
    /\ \A i \in DOMAIN calls : calls[i].who # id
    /\ CalcLoads(id)

SpecPair == InitPair /\ [][NextPair]_vars

\* a director and two instances (a boiler, a CHP or a heat pump, with or
\* without heating demand); the caller sets, runs, calls and overwrites results
DirectorStrategies ==
  {SupplySystemBase(c, Num(LoadTable[1], 1), Num(TempTable[1], 1), Num(TempTable[2], 1),
                    Num(TempTable[3], 1), hd, FALSE) :
     c \in {"OilBoilerOld", "CHP", "HeatPumpAir", "HeatPumpWater"}, hd \in BOOLEAN}

InitDirector ==
  /\ objs \in {<<s, v>> : s \in DirectorStrategies, v \in DirectorStrategies}
  /\ builder = 0
  /\ heap = <<>>
  /\ calls = <<>>
  /\ dirty = {}

NextDirector ==
  \/ \E id \in DOMAIN objs : set_builder(id)
  \/ calc_system
  \/ \E id \in DOMAIN objs : CalcLoads(id)
  \/ \E i \in DOMAIN heap, f \in Fields : Overwrite(i, f)

SpecDirector == InitDirector /\ [][NextDirector]_vars

\* ------------------------------------------------------------ claims
\* the calls of calc_loads or calc_system that ran on an instance
Ran == {i \in DOMAIN calls : calls[i].op \in {"calc_loads", "calc_system"} /\ calls[i].who # 0}

\* the field f of the SupplyOut that call i returned, as it reads now
Read(i, f) == GetAttr(heap[calls[i].ref], f)

\* calls i and j ended alike: the same exception, or results equal field by field
SameOutcome(i, j) ==
  /\ calls[i].exc = calls[j].exc
  /\ calls[i].exc = "none" => \A f \in Fields : Read(i, f) = Read(j, f)

\* a <= b on floats
FLe(a, b) ==
  /\ a.k # "nan"
  /\ b.k # "nan"
  /\ \/ a = b
     \/ FGt0(FSub(b, a))

NoDemand(s) == ~s.has_heating_demand /\ ~s.has_cooling_demand

\* a - b is a finite float whose square overflows
HugeDiff(a, b) ==
  \/ a.k = "huge" /\ b.k \in {"num", "nhuge"}
  \/ a.k = "num" /\ b.k = "nhuge"

\* the temperature difference of the branch calc_loads takes on s is a finite
\* float whose square overflows
SquareOverflows(s) ==
  \/ /\ s.cls = "HeatPumpAir"
     /\ \/ s.has_heating_demand /\ HugeDiff(s.heating_supply_temperature, s.t_out)
        \/ /\ ~s.has_heating_demand
           /\ s.has_cooling_demand
           /\ HugeDiff(s.t_out, s.cooling_supply_temperature)
  \/ /\ s.cls = "HeatPumpWater"
     /\ \/ s.has_heating_demand /\ s.heating_supply_temperature.k = "huge"
        \/ /\ ~s.has_heating_demand
           /\ s.has_cooling_demand
           /\ s.cooling_supply_temperature.k = "nhuge"

\* C1: HeatPumpAir.calc_loads with both demand flags false raises ValueError
\* and returns no SupplyOut, whatever the load and the temperatures.
C1_AirNoDemandRaises ==
  \A i \in Ran :
    LET s == objs[calls[i].who]
    IN  (s.cls = "HeatPumpAir" /\ NoDemand(s))
          => calls[i].exc = "ValueError" /\ calls[i].ref = 0

C1_Witness ==
  \E i \in Ran :
    LET s == objs[calls[i].who]
    IN  /\ s.cls = "HeatPumpAir"
        /\ NoDemand(s)
        /\ s.load.k = "num"
        /\ s.heating_supply_temperature.k = "huge"
        /\ calls[i].exc = "ValueError"

\* C2 (as stated): HeatPumpWater.calc_loads with both demand flags false
\* raises nothing and returns a SupplyOut whose four fields all read nan.
C2_WaterNoDemandAllNaN ==
  \A i \in Ran :
    LET s == objs[calls[i].who]
    IN  (s.cls = "HeatPumpWater" /\ NoDemand(s))
          => /\ calls[i].exc = "none"
             /\ \A f \in Fields : Read(i, f) = NaN

\* C2 (amended): HeatPumpWater.calc_loads with both demand flags false raises
\* nothing and returns a SupplyOut whose electricity_in and cop read nan and
\* whose fossils_in and electricity_out are 0.
C2_WaterNoDemandHalfNaN ==
  \A i \in Ran :
    LET s == objs[calls[i].who]
    IN  (s.cls = "HeatPumpWater" /\ NoDemand(s))
          => /\ calls[i].exc = "none"
             /\ Read(i, "electricity_in") = NaN
             /\ Read(i, "cop") = NaN
             /\ Read(i, "fossils_in") = Zero
             /\ Read(i, "electricity_out") = Zero

C2_Witness ==
  \E i \in Ran :
    LET s == objs[calls[i].who]
    IN  /\ s.cls = "HeatPumpWater"
        /\ NoDemand(s)
        /\ s.load.k = "num"
        /\ calls[i].exc = "none"
        /\ heap[calls[i].ref].cop = Unset

\* C3: whenever calc_loads returns, the channels the class does not use are
\* exactly 0, not nan: electricity_in and electricity_out for the three oil
\* boilers, electricity_in for CHP, fossils_in and electricity_out for
\* ElectricHeating, DirectHeater, DirectCooler and both heat pumps.
C3_UnusedChannelsZero ==
  \A i \in Ran :
    LET cls == objs[calls[i].who].cls
    IN  calls[i].exc = "none" =>
          /\ cls \in {"OilBoilerOld", "OilBoilerMed", "OilBoilerNew"}
               => Read(i, "electricity_in") = Zero /\ Read(i, "electricity_out") = Zero
          /\ cls = "CHP" => Read(i, "electricity_in") = Zero
          /\ cls \in {"ElectricHeating", "DirectHeater", "DirectCooler",
                      "HeatPumpAir", "HeatPumpWater"}
               => Read(i, "fossils_in") = Zero /\ Read(i, "electricity_out") = Zero

C3_Witness ==
  \E i \in Ran :
    /\ objs[calls[i].who].cls = "CHP"
    /\ objs[calls[i].who].load = Num(60, 1)
    /\ calls[i].exc = "none"
    /\ Read(i, "fossils_in") = Num(100, 1)
    /\ Read(i, "electricity_out") = Num(33, 1)
    /\ Read(i, "electricity_in") = Zero

\* the instance last given to set_builder among the first n calls (0: none)
LastSet(n) ==
  LET sets == {j \in 1..n : calls[j].op = "set_builder"}
  IN  IF sets = {} THEN 0
      ELSE calls[CHOOSE j \in sets : \A k \in sets : k <= j].who

\* C4: calc_system returns exactly what calc_loads of the instance most
\* recently given to set_builder returns, or ends with the exception that
\* calc_loads raises (AttributeError while no builder was ever set), and the
\* director holds the most recently set instance whatever calc_system did.
C4_RunsCurrentStrategy ==
  /\ builder = LastSet(Len(calls))
  /\ \A i \in DOMAIN calls :
       calls[i].op = "calc_system" =>
         IF LastSet(i) = 0
         THEN calls[i].exc = "AttributeError" /\ calls[i].ref = 0
         ELSE LET out == calc_loads(objs[LastSet(i)])
              IN  /\ calls[i].who = LastSet(i)
                  /\ calls[i].exc = out.exc
                  /\ out.exc = "none" => calls[i].ref # 0 /\ calls[i].system = out.system
                  /\ out.exc # "none" => calls[i].ref = 0

C4_Witness ==
  /\ Len(calls) = 3
  /\ calls[1].op = "set_builder"
  /\ calls[2].op = "set_builder"
  /\ calls[3].op = "calc_system"
  /\ calls[1].who # calls[2].who
  /\ objs[1] # objs[2]
  /\ calls[3].who = calls[2].who
  /\ calls[3].exc = "none"
  /\ builder = calls[2].who

\* one step keeps the instances and leaves the calls on one instance alike
C5_Step ==
  /\ objs' = objs
  /\ \A i \in DOMAIN calls' : \A j \in DOMAIN calls' :
       calls'[i].who = calls'[j].who =>
         /\ calls'[i].exc = calls'[j].exc
         /\ calls'[i].exc = "none" =>
              \A f \in Fields : GetAttr(heap'[calls'[i].ref], f) = GetAttr(heap'[calls'[j].ref], f)

\* C5: every call of calc_loads on one instance ends the same way (equal
\* results field by field, or the same exception), and no call changes any of
\* the instance's six attributes.
C5_Idempotent == [][C5_Step]_vars

C5_Witness ==
  /\ Len(calls) = 3
  /\ \A i \in DOMAIN calls : calls[i].who = 1 /\ calls[i].exc = "none"
  /\ Cardinality({calls[i].ref : i \in DOMAIN calls}) = 3
  /\ objs[1].cls = "OilBoilerOld"
  /\ objs[1].load.k = "num"
  /\ objs[1].load # Zero

\* C6: every returned SupplyOut is an instance of its own: whatever fields of
\* whichever results the caller overwrites, every other field of every result,
\* returned before or after, reads as calc_loads computed it, and a field
\* calc_loads never assigned reads nan.
C6_FreshResults ==
  \A i \in Ran :
    calls[i].exc = "none" =>
      /\ calls[i].system = calc_loads(objs[calls[i].who]).system
      /\ \A j \in Ran : (j # i /\ calls[j].exc = "none") => calls[j].ref # calls[i].ref
      /\ \A f \in Fields :
           <<calls[i].ref, f>> \notin dirty =>
             /\ Read(i, f) = GetAttr(calls[i].system, f)
             /\ calls[i].system[f] = Unset => Read(i, f) = NaN

C6_Witness ==
  /\ Len(calls) = 3
  /\ \A i \in DOMAIN calls : calls[i].op = "calc_loads" /\ calls[i].exc = "none"
  /\ calls[1].who = calls[3].who
  /\ calls[2].who # calls[1].who
  /\ objs[1].cls = "CHP"
  /\ objs[2].cls = "CHP"
  /\ dirty = {<<calls[2].ref, "fossils_in">>}
  /\ heap[calls[2].ref].fossils_in = Scribble
  /\ Read(1, "fossils_in") # Scribble
  /\ Read(3, "fossils_in") # Scribble
  /\ Read(2, "cop") = NaN

\* C7: in HeatPumpAir.calc_loads the temperature difference is clamped at 0:
\* with heating demand and heating supply temperature <= outdoor temperature,
\* or with cooling demand only and outdoor temperature <= cooling supply
\* temperature, the call returns cop = 6.81 exactly and
\* electricity_in = load / 6.81.
C7_ClampedCop ==
  \A i \in Ran :
    LET s == objs[calls[i].who]
    IN  ( /\ s.cls = "HeatPumpAir"
          /\ \/ /\ s.has_heating_demand
                /\ FLe(s.heating_supply_temperature, s.t_out)
             \/ /\ ~s.has_heating_demand
                /\ s.has_cooling_demand
                /\ FLe(s.t_out, s.cooling_supply_temperature) )
          => /\ calls[i].exc = "none"
             /\ Read(i, "cop") = Num(681, 100)
             /\ Read(i, "electricity_in") = FDiv(s.load, Num(681, 100))

C7_Witness ==
  \E i \in Ran :
    LET s == objs[calls[i].who]
    IN  /\ s.cls = "HeatPumpAir"
        /\ s.has_heating_demand
        /\ s.heating_supply_temperature = Num(35, 1)
        /\ s.t_out = Num(110, 1)
        /\ s.load = Num(60, 1)
        /\ calls[i].exc = "none"
        /\ Read(i, "cop") = Num(681, 100)
        /\ Read(i, "electricity_in") = Num(6000, 681)

\* the heat pumps that take a demand branch
PumpsWithDemand(s) == s.cls \in {"HeatPumpAir", "HeatPumpWater"} /\ ~NoDemand(s)

\* C8 (as stated): HeatPumpAir without demand is the only failure: every
\* other class, and HeatPumpAir with a demand flag set, returns a SupplyOut
\* for every load and every temperature, and the cop divided by is never 0.
C8_OnlyAirNoDemandFails ==
  \A i \in Ran :
    LET s == objs[calls[i].who]
    IN  (s.cls # "HeatPumpAir" \/ ~NoDemand(s))
          => /\ calls[i].exc = "none"
             /\ PumpsWithDemand(s) => Read(i, "cop") # Zero

\* C8 (amended): besides HeatPumpAir without demand, the only failure is the
\* OverflowError of deltaT**2 in both heat pumps when the clamped temperature
\* difference is a finite float beyond the square root of the largest float;
\* every other call returns a SupplyOut, for every load (negative, zero,
\* infinite, nan) and temperature, and the cop divided by is never 0.
C8_FailsOnlyOnSquareOverflow ==
  \A i \in Ran :
    LET s == objs[calls[i].who]
    IN  (s.cls # "HeatPumpAir" \/ ~NoDemand(s))
          => IF SquareOverflows(s)
             THEN calls[i].exc = "OverflowError" /\ calls[i].ref = 0
             ELSE /\ calls[i].exc = "none"
                  /\ PumpsWithDemand(s) => Read(i, "cop") # Zero

C8_Witness ==
  \E i \in Ran :
    LET s == objs[calls[i].who]
    IN  /\ s.cls = "HeatPumpAir"
        /\ ~s.has_heating_demand
        /\ s.has_cooling_demand
        /\ s.load = Num(-63, 1)
        /\ s.t_out = Num(35, 1)
        /\ s.cooling_supply_temperature = Num(-60, 1)
        /\ calls[i].exc = "none"
        /\ Read(i, "cop").k = "num"
        /\ Read(i, "cop") # Num(681, 100)
        /\ Read(i, "electricity_in").n < 0

HeatingOnlyOf(a, b) ==
  b = [a EXCEPT !.has_cooling_demand = FALSE,
                !.cooling_supply_temperature = b.cooling_supply_temperature]

\* C10 (as stated): with both demand flags true both heat pumps raise no error
\* and return the result of the heating case, whatever the cooling supply
\* temperature.
C10_BothFlagsReturnHeating ==
  \A i \in Ran :
    LET a == objs[calls[i].who]
    IN  (a.cls \in {"HeatPumpAir", "HeatPumpWater"}
           /\ a.has_heating_demand /\ a.has_cooling_demand)
          => /\ calls[i].exc = "none"
             /\ \A j \in Ran : HeatingOnlyOf(a, objs[calls[j].who]) => SameOutcome(i, j)

\* C10 (amended): with both demand flags true both heat pumps end exactly as
\* in the heating case, whatever the cooling supply temperature: they return
\* the heating result, or raise the heating case's OverflowError when the
\* heating temperature difference is too large to square, and never raise on
\* account of the flags.
C10_BothFlagsAsHeating ==
  \A i \in Ran :
    LET a == objs[calls[i].who]
    IN  (a.cls \in {"HeatPumpAir", "HeatPumpWater"}
           /\ a.has_heating_demand /\ a.has_cooling_demand)
          => /\ calls[i].exc = IF SquareOverflows(a) THEN "OverflowError" ELSE "none"
             /\ \A j \in Ran : HeatingOnlyOf(a, objs[calls[j].who]) => SameOutcome(i, j)

C10_Witness ==
  \E i \in Ran : \E j \in Ran :
    LET a == objs[calls[i].who]
        b == objs[calls[j].who]
    IN  /\ a.cls = "HeatPumpAir"
        /\ a.has_heating_demand
        /\ a.has_cooling_demand
        /\ HeatingOnlyOf(a, b)
        /\ a.heating_supply_temperature = Num(35, 1)
        /\ a.t_out = Num(-60, 1)
        /\ a.cooling_supply_temperature = Num(110, 1)
        /\ b.cooling_supply_temperature = Num(-60, 1)
        /\ calls[i].exc = "none"
        /\ calls[i].ref # calls[j].ref
        /\ Read(i, "cop") # Num(681, 100)
        /\ Read(i, "cop") = Read(j, "cop")

====
